---- MODULE Spec2Model ----
(***************************************************************************)
(* A model of the event store of eventstore.go: the key codec (formatTs,   *)
(* parseTs, splitCollectionID), the ingest pipeline (StoreEvents, Version, *)
(* cursorGet) and the query evaluator (Query), over an ordered key-value   *)
(* collection with atomic write batches and forward cursors (lm2).         *)
(*                                                                         *)
(* Go strings are sequences of bytes (0..255) and compare bytewise.  The   *)
(* model's machine integers are the integers TLC can hold (32 bits); the   *)
(* code's int64 values that the model uses all lie in that range, and      *)
(* formatTs / parseTs are written so that they are the code's 8-byte       *)
(* two's-complement codec on that range.                                   *)
(***************************************************************************)
EXTENDS Integers, Sequences, FiniteSets, TLC

VARIABLES
    store,      \* the lm2 collection: key (byte string) -> value
    last,       \* the call that has just returned, with its result
    accepted,   \* history: <<tag, _ts, _hash, x>> of every event stored
    nSucc,      \* history: tag -> number of successful StoreEvents calls
    nCalls,     \* number of StoreEvents calls counted against the bound
    pc,         \* concurrent callers: position of each inside StoreEvents
    local,      \* concurrent callers: locals of the running StoreEvents
    committed,  \* history: tag -> number of batches committed by callers
    codec       \* inputs and outputs of the key codec under test

vars == <<store, last, accepted, nSucc, nCalls, pc, local, committed, codec>>

---------------------------------------------------------------------------
(* Bounds of the model *)

\* successful StoreEvents calls per behaviour (a failed call changes
\* nothing, so any number of them may come in between)
MaxCalls == 2
\* events per StoreEvents request
MaxBatch == 2

---------------------------------------------------------------------------
(* Bytes and byte strings *)

ChE == 101
ChV == 118
ChDash == 45
ChUnderscore == 95
ChFF == 255
ChZero == 48

\* "a", "b", "h" and "a-b" as byte strings
StrA == <<97>>
StrB == <<98>>
StrH == <<104>>
StrADashB == <<97, 45, 98>>

RECURSIVE StrLess(_, _)
\* Go's < on strings: bytewise lexicographic, a proper prefix sorts first
StrLess(a, b) ==
    IF b = <<>> THEN FALSE
    ELSE IF a = <<>> THEN TRUE
    ELSE IF a[1] # b[1] THEN a[1] < b[1]
    ELSE StrLess(Tail(a), Tail(b))

RECURSIVE SortKeys(_)
\* the keys of a collection in the order a forward cursor visits them
SortKeys(S) ==
    IF S = {} THEN <<>>
    ELSE LET m == CHOOSE k \in S : \A o \in S : o = k \/ StrLess(k, o)
         IN  <<m>> \o SortKeys(S \ {m})

RECURSIVE Split(_, _)
\* strings.Split(s, sep) for a one-byte separator
Split(s, sep) ==
    IF \A i \in 1..Len(s) : s[i] # sep THEN <<s>>
    ELSE LET i == CHOOSE j \in 1..Len(s) :
                      s[j] = sep /\ \A k \in 1..(j - 1) : s[k] # sep
         IN  <<SubSeq(s, 1, i - 1)>> \o Split(SubSeq(s, i + 1, Len(s)), sep)

RECURSIVE Itoa(_)
\* strconv.Itoa / strconv.FormatInt(n, 10)
Itoa(n) ==
    IF n < 0 THEN <<ChDash>> \o Itoa(-n)
    ELSE IF n < 10 THEN <<ChZero + n>>
    ELSE Itoa(n \div 10) \o <<ChZero + (n % 10)>>

IsDigits(s) == Len(s) > 0 /\ \A i \in 1..Len(s) : s[i] \in ChZero..(ChZero + 9)

RECURSIVE DigitsValue(_)
DigitsValue(s) ==
    IF s = <<>> THEN 0
    ELSE 10 * DigitsValue(SubSeq(s, 1, Len(s) - 1)) + (s[Len(s)] - ChZero)

\* strconv.Atoi: [err, n]
Atoi(s) ==
    IF IsDigits(s) THEN [err |-> "nil", n |-> DigitsValue(s)]
    ELSE IF Len(s) > 1 /\ s[1] = ChDash /\ IsDigits(Tail(s))
         THEN [err |-> "nil", n |-> -DigitsValue(Tail(s))]
    ELSE [err |-> "invalid syntax", n |-> 0]

\* the bytes eventIDTagRegexp's class [a-zA-Z0-9_./] admits
TagChars == (97..122) \cup (65..90) \cup (48..57) \cup {95, 46, 47}
\* the bytes eventIDHashRegexp's class [a-zA-Z0-9] admits
HashChars == (97..122) \cup (65..90) \cup (48..57)

TagMaxLen == 256
HashMaxLen == 16

\* eventIDTagRegexp.MatchString
TagMatch(s) == Len(s) \in 1..TagMaxLen /\ \A i \in 1..Len(s) : s[i] \in TagChars
\* eventIDHashRegexp.MatchString
HashMatch(s) == Len(s) \in 1..HashMaxLen /\ \A i \in 1..Len(s) : s[i] \in HashChars

---------------------------------------------------------------------------
(* Times *)

\* a time.Time: an instant (sec, nsec) and a location; Go's == on two
\* time.Time values compares the instant and the location
Time(sec, nsec, loc) == [sec |-> sec, nsec |-> nsec, loc |-> loc]

\* minTimestamp = time.Unix(0, 0), which carries the Local location
minTimestamp == Time(0, 0, "Local")

\* t.Before(u)
Before(t, u) == t.sec < u.sec \/ (t.sec = u.sec /\ t.nsec < u.nsec)

\* the instants of two times agree (t.Equal(u))
SameInstant(t, u) == t.sec = u.sec /\ t.nsec = u.nsec

MicrosPerSecond == 1000000
NanosPerMicro == 1000

toMicrosecondTime(t) == t.sec * MicrosPerSecond + t.nsec \div NanosPerMicro

\* Go's / and % on integers truncate toward zero
GoDiv(a, b) == IF a >= 0 THEN a \div b ELSE -((-a) \div b)
GoMod(a, b) == a - b * GoDiv(a, b)

\* time.Unix(sec, nsec).UTC(): nsec outside [0, 1e9) is carried into sec
fromMicrosecondTime(t) ==
    LET s == GoDiv(t, MicrosPerSecond)
        n == GoMod(t, MicrosPerSecond) * NanosPerMicro
    IN  IF n < 0 THEN Time(s - 1, n + MicrosPerSecond * NanosPerMicro, "UTC")
        ELSE Time(s, n, "UTC")

\* math.MaxInt64, at the width of the model's integers
MaxInt64 == 2147483647

---------------------------------------------------------------------------
(* Key codec *)

RECURSIVE Shr(_, _)
\* ts >> (8 * k), an arithmetic shift
Shr(ts, k) == IF k = 0 THEN ts ELSE Shr(ts \div 256, k - 1)

\* formatTs with the bytes in the wrong (little-endian) order
formatTsLittleEndian(ts) == [i \in 1..8 |-> Shr(ts, i - 1) % 256]

\* formatTs: the 8 bytes of ts, most significant first
formatTs(ts) == [i \in 1..8 |-> Shr(ts, 8 - i) % 256]

RECURSIVE Unsigned(_)
Unsigned(b) ==
    IF b = <<>> THEN 0
    ELSE 256 * Unsigned(SubSeq(b, 1, Len(b) - 1)) + b[Len(b)]

\* parseTs: the int64 whose big-endian two's-complement bytes are b
parseTs(b) ==
    IF b[1] >= 128 THEN -1 - Unsigned([i \in 1..8 |-> 255 - b[i]])
    ELSE Unsigned(b)

\* the event key StoreEvents builds (idStr)
EventKey(ts, tag, hash) == <<ChE>> \o formatTs(ts) \o <<ChDash>> \o tag \o <<ChDash>> \o hash

\* a version key that leaves the tag out
VersionKeyShared(tag) == <<ChV, ChDash>>

\* the version key of a tag
VersionKey(tag) == <<ChV, ChDash>> \o tag

\* splitCollectionID that splits the whole key on '-', as splitID does
splitWholeID(id) ==
    LET parts == Split(id, ChDash)
    IN  IF Len(parts) # 3 \/ Len(parts[1]) # 1 + 8 \/ parts[1][1] # ChE
        THEN [err |-> "invalid ID", ts |-> 0, tag |-> <<>>, hash |-> <<>>]
        ELSE [err |-> "nil", ts |-> parseTs(SubSeq(parts[1], 2, 9)),
              tag |-> parts[2], hash |-> parts[3]]

\* splitCollectionID: [err, ts, tag, hash]
splitCollectionID(id) ==
    LET bad(e) == [err |-> e, ts |-> 0, tag |-> <<>>, hash |-> <<>>]
    IN  IF Len(id) < 1 THEN bad("invalid ID")
        ELSE IF id[1] # ChE THEN bad("invalid ID prefix")
        ELSE IF Len(id) - 1 < 8 + 2 THEN bad("invalid ID")
        ELSE IF id[10] # ChDash THEN bad("invalid ID")
        ELSE LET parts == Split(SubSeq(id, 11, Len(id)), ChDash)
             IN  IF Len(parts) # 2 THEN bad("invalid ID")
                 ELSE [err |-> "nil", ts |-> parseTs(SubSeq(id, 2, 9)),
                       tag |-> parts[1], hash |-> parts[2]]

---------------------------------------------------------------------------
(* Events and their JSON encoding *)

\* a Go value held in an Event map: k is its dynamic type
\* (numbers in n, strings in s, times in t); "absent" is a missing map key
GoVal(k, n, s, t) == [k |-> k, n |-> n, s |-> s, t |-> t]
GoFloat(n) == GoVal("float64", n, <<>>, Time(0, 0, "UTC"))
GoInt(n) == GoVal("int", n, <<>>, Time(0, 0, "UTC"))
GoInt64(n) == GoVal("int64", n, <<>>, Time(0, 0, "UTC"))
GoString(s) == GoVal("string", 0, s, Time(0, 0, "UTC"))
GoTime(t) == GoVal("time", 0, <<>>, t)
GoFunc == GoVal("func", 0, <<>>, Time(0, 0, "UTC"))
GoAbsent == GoVal("absent", 0, <<>>, Time(0, 0, "UTC"))

\* the _ts member of a request event: absent, not a string, or a string
\* that is (wf) or is not RFC 3339 text for the instant (sec, nsec)
TsVal(kind, wf, sec, nsec) == [kind |-> kind, wf |-> wf, sec |-> sec, nsec |-> nsec]
TsMissing == TsVal("missing", FALSE, 0, 0)
TsNotString == TsVal("number", FALSE, 0, 0)
TsMalformed == TsVal("string", FALSE, 0, 0)
TsAt(sec, nsec) == TsVal("string", TRUE, sec, nsec)

\* the _hash member of a request event: absent, not a string, or a string
HashVal(kind, s) == [kind |-> kind, s |-> s]
HashMissing == HashVal("missing", <<>>)
HashNotString == HashVal("number", <<>>)
HashOf(s) == HashVal("string", s)

\* a request event: whether it carries _id, its _ts, its _hash and one
\* non-reserved field x
Event(id, ts, hash, x) == [id |-> id, ts |-> ts, hash |-> hash, x |-> x]

\* json.Marshal of one value: numbers lose their Go type, a func is refused
MarshalVal(v) ==
    IF v.k \in {"int", "float64"} THEN [err |-> "nil", k |-> "number", n |-> v.n, s |-> <<>>]
    ELSE IF v.k = "string" THEN [err |-> "nil", k |-> "string", n |-> 0, s |-> v.s]
    ELSE IF v.k = "absent" THEN [err |-> "nil", k |-> "absent", n |-> 0, s |-> <<>>]
    ELSE [err |-> "json: unsupported type", k |-> "absent", n |-> 0, s |-> <<>>]

\* json.Unmarshal of one value into interface{}: every number is a float64
UnmarshalVal(j) ==
    IF j.k = "number" THEN GoFloat(j.n)
    ELSE IF j.k = "string" THEN GoString(j.s)
    ELSE GoAbsent

\* json.Marshal(event) after delete(event, "_id"): the JSON object text,
\* which still holds _ts and _hash as the request gave them
Marshal(event) ==
    LET x == MarshalVal(event.x)
    IN  [err |-> x.err,
         json |-> [ts |-> event.ts, hash |-> event.hash, x |-> [k |-> x.k, n |-> x.n, s |-> x.s]]]

\* time.Parse(time.RFC3339Nano, tsString): [err, t]
ParseTime(ts) ==
    IF ts.wf THEN [err |-> "nil", t |-> Time(ts.sec, ts.nsec, "UTC")]
    ELSE [err |-> "parse error", t |-> Time(0, 0, "UTC")]

---------------------------------------------------------------------------
(* The lm2 collection: write batches and cursors *)

\* wb.Set(key, value) on a write batch: a later Set of a key replaces it
WbSet(wb, key, val) == Append(wb, [key |-> key, val |-> val])

RECURSIVE ApplyBatch(_, _)
ApplyBatch(st, wb) ==
    IF wb = <<>> THEN st
    ELSE LET w == wb[1]
             st1 == [k \in DOMAIN st \cup {w.key} |-> IF k = w.key THEN w.val ELSE st[k]]
         IN  ApplyBatch(st1, Tail(wb))

\* c.lm2Col.Update(wb): all of the batch, or on failure none of it
Update(st, wb, fault) ==
    IF fault = "update" THEN [err |-> "update failed", store |-> st]
    ELSE [err |-> "nil", store |-> ApplyBatch(st, wb)]

\* cur.Seek(key): the index in the cursor's key order where the next
\* cur.Next() stands.  lm2 documents Seek as landing on the last key <= key
\* ("le"); a cursor landing on the first key >= key ("ge") serves the
\* callers here as well, and the model admits both.
SeekIndex(keys, key, mode) ==
    LET ge == IF \E i \in 1..Len(keys) : ~StrLess(keys[i], key)
              THEN CHOOSE i \in 1..Len(keys) :
                       /\ ~StrLess(keys[i], key)
                       /\ \A j \in 1..(i - 1) : StrLess(keys[j], key)
              ELSE Len(keys) + 1
    IN  IF mode = "ge" THEN ge
        ELSE IF ge <= Len(keys) /\ keys[ge] = key THEN ge
        ELSE IF ge > 1 THEN ge - 1
        ELSE 1

RECURSIVE cursorGetFrom(_, _, _, _)
cursorGetFrom(st, keys, i, key) ==
    IF i > Len(keys) THEN [err |-> "not found", val |-> <<>>]
    ELSE IF StrLess(key, keys[i]) THEN [err |-> "not found", val |-> <<>>]
    ELSE IF keys[i] = key THEN [err |-> "nil", val |-> st[key]]
    ELSE cursorGetFrom(st, keys, i + 1, key)

\* cursorGet(cur, key): [err, val]
cursorGet(st, key, mode) ==
    LET keys == SortKeys(DOMAIN st)
    IN  cursorGetFrom(st, keys, SeekIndex(keys, key, mode), key)

---------------------------------------------------------------------------
(* Ingest *)

\* EventCollection.Version: [err, n]; fault "cursor" is NewCursor failing
Version(st, tag, mode, fault) ==
    IF fault = "cursor" THEN [err |-> "cursor error", n |-> 0]
    ELSE LET got == cursorGet(st, VersionKey(tag), mode)
         IN  IF got.err # "nil" THEN [err |-> got.err, n |-> 0]
             ELSE Atoi(got.val)

\* the timestamp checks of StoreEvents on one event: [err, ts]
EventTs(event) ==
    IF event.ts.kind = "missing" THEN [err |-> "missing event ts", ts |-> 0]
    ELSE IF event.ts.kind # "string" THEN [err |-> "ts is not a string", ts |-> 0]
    ELSE LET p == ParseTime(event.ts)
         IN  IF p.err # "nil" THEN [err |-> "ts is not formatted per RFC 3339", ts |-> 0]
             ELSE IF Before(p.t, minTimestamp) THEN [err |-> "ts before Unix epoch", ts |-> 0]
             ELSE [err |-> "nil", ts |-> toMicrosecondTime(p.t)]

\* the hash StoreEvents puts in the key: the _hash string verbatim, else ""
EventHash(event) == IF event.hash.kind = "string" THEN event.hash.s ELSE <<>>

RECURSIVE BuildBatchNoHash(_, _, _)
\* the loop of StoreEvents with the hash left out of the key
BuildBatchNoHash(tag, events, wb) ==
    IF events = <<>> THEN [err |-> "nil", wb |-> wb]
    ELSE LET event == events[1]
             m == Marshal(event)
             t == EventTs(event)
         IN  IF m.err # "nil" THEN [err |-> m.err, wb |-> wb]
             ELSE IF t.err # "nil" THEN [err |-> t.err, wb |-> wb]
             ELSE BuildBatchNoHash(tag, Tail(events),
                                   WbSet(wb, EventKey(t.ts, tag, <<>>), m.json))

RECURSIVE BuildBatch(_, _, _)
\* the loop of StoreEvents over req.Events: [err, wb], wb being the batch
\* built when the loop ended
BuildBatch(tag, events, wb) ==
    IF events = <<>> THEN [err |-> "nil", wb |-> wb]
    ELSE LET event == events[1]
             m == Marshal(event)
             t == EventTs(event)
         IN  IF m.err # "nil" THEN [err |-> m.err, wb |-> wb]
             ELSE IF t.err # "nil" THEN [err |-> t.err, wb |-> wb]
             ELSE BuildBatch(tag, Tail(events),
                             WbSet(wb, EventKey(t.ts, tag, EventHash(event)), m.json))

\* StoreEvents writing each row as its loop reaches it, so that an error
\* return leaves the rows of the events before it
AbandonBatchWritten(st, wb) == ApplyBatch(st, wb)

\* what StoreEvents leaves in the collection when it returns an error
\* before the commit: nothing of the batch
AbandonBatch(st, wb) == st

\* StoreEvents up to the end of its loop: the tag check and the batch,
\* [err, wb]
StoreBegin(tag, events) ==
    IF ~TagMatch(tag) THEN [err |-> "invalid tag", wb |-> <<>>]
    ELSE BuildBatch(tag, events, <<>>)

\* StoreEvents that bumps the version only for a batch that has events
StoreReadSkipsEmpty(st, mode, tag, wb, fault) ==
    LET v == Version(st, tag, mode, fault)
        version == (IF v.err = "not found" THEN 0 ELSE v.n) + 1
    IN  IF v.err # "nil" /\ v.err # "not found"
        THEN [err |-> "error getting tag version", version |-> 0, wb |-> wb]
        ELSE IF wb = <<>> THEN [err |-> "nil", version |-> version - 1, wb |-> wb]
        ELSE [err |-> "nil", version |-> version,
              wb |-> WbSet(wb, VersionKey(tag), Itoa(version))]

\* StoreEvents from c.Version(req.Tag) to wb.Set of the version row:
\* [err, version, wb]
StoreRead(st, mode, tag, wb, fault) ==
    LET v == Version(st, tag, mode, fault)
        version == (IF v.err = "not found" THEN 0 ELSE v.n) + 1
    IN  IF v.err # "nil" /\ v.err # "not found"
        THEN [err |-> "error getting tag version", version |-> 0, wb |-> wb]
        ELSE [err |-> "nil", version |-> version,
              wb |-> WbSet(wb, VersionKey(tag), Itoa(version))]

\* StoreEvents from c.lm2Col.Update(wb) to its return: [err, ret, store]
StoreCommit(st, wb, version, fault) ==
    LET u == Update(st, wb, fault)
    IN  IF u.err # "nil" THEN [err |-> u.err, ret |-> 0, store |-> u.store]
        ELSE [err |-> "nil", ret |-> version, store |-> u.store]

\* EventCollection.StoreEvents: [err, ret, wb, store], wb being the write
\* batch the call built (committed when err is "nil", dropped otherwise).
\* (The one-element sets bind each step's result once.)
StoreEventsCall(st, mode, tag, events, fault) ==
    CHOOSE res \in
        { IF b.err # "nil"
          THEN [err |-> b.err, ret |-> 0, wb |-> b.wb, store |-> AbandonBatch(st, b.wb)]
          ELSE CHOOSE res2 \in
                  { IF r.err # "nil"
                    THEN [err |-> r.err, ret |-> 0, wb |-> r.wb, store |-> AbandonBatch(st, r.wb)]
                    ELSE CHOOSE res3 \in
                            { [err |-> c.err, ret |-> c.ret, wb |-> r.wb, store |-> c.store] :
                                c \in {StoreCommit(st, r.wb, r.version, fault)} } : TRUE :
                      r \in {StoreRead(st, mode, tag, b.wb, fault)} } : TRUE :
            b \in {StoreBegin(tag, events)} } : TRUE

---------------------------------------------------------------------------
(* Query *)

\* the event keys a query can name: the derived fields, the stored field
\* x and a field y that no stored event carries
Columns == {"_ts", "_tag", "_hash", "_id", "x", "y"}

\* the largest and the smallest value of Go's int, at the width of the
\* model's integers
MaxInt == 2147483647
MinInt == (-MaxInt) - 1

\* a - b on Go's int: the difference modulo 2^32 in [MinInt, MaxInt],
\* formed without leaving that interval
IntSub(a, b) ==
    IF b > 0 /\ a < MinInt + b THEN (((a - MinInt) - b) + MaxInt) + 1
    ELSE IF b < 0 /\ a > MaxInt + b THEN (((a - MaxInt) - 1) - b) + MinInt
    ELSE a - b

\* compareInterfaces(a, b): the switch on the type of a; a value of kind
\* "NaN" is the float64 NaN, for which == and < are both false
compareInterfaces(a, b) ==
    IF a.k = "int" /\ b.k = "int" THEN IntSub(a.n, b.n)
    ELSE IF a.k \in {"float64", "NaN"} /\ b.k \in {"float64", "NaN"}
         THEN (IF a.k = "NaN" \/ b.k = "NaN" THEN 1
               ELSE IF a.n = b.n THEN 0 ELSE IF a.n < b.n THEN -1 ELSE 1)
    ELSE IF a.k = "string" /\ b.k = "string"
         THEN (IF a.s = b.s THEN 0 ELSE IF StrLess(a.s, b.s) THEN -1 ELSE 1)
    ELSE IF a.k = "json.Number" /\ b.k = "json.Number"
         THEN (IF a.n = b.n THEN 0 ELSE IF a.n < b.n THEN -1 ELSE 1)
    ELSE -1

checkEquals(a, b) == compareInterfaces(a, b) = 0

\* the event Query rebuilds from a row: the unmarshalled value with _ts,
\* _tag, _hash (when the key's hash is not empty) and _id set from the key
ReadEvent(ts, keyTag, hash, json) ==
    LET eventID == Itoa(ts) \o <<ChDash>> \o keyTag
                   \o (IF Len(hash) > 0 THEN <<ChDash>> \o hash ELSE <<>>)
        jsonHash == IF json.hash.kind = "missing" THEN GoAbsent
                    ELSE IF json.hash.kind = "string" THEN GoString(json.hash.s)
                    ELSE GoFloat(0)
    IN  [c \in Columns |->
            CASE c = "_ts" -> GoInt64(ts)
              [] c = "_tag" -> GoString(keyTag)
              [] c = "_hash" -> IF Len(hash) > 0 THEN GoString(hash) ELSE jsonHash
              [] c = "_id" -> GoString(eventID)
              [] c = "x" -> UnmarshalVal(json.x)
              [] OTHER -> GoAbsent]

RECURSIVE ApplyFilters(_, _)
\* the filter loop on one event: "keep", "drop" or "error"
ApplyFilters(event, filters) ==
    IF filters = <<>> THEN "keep"
    ELSE LET filter == filters[1]
             colValue == event[filter.column]
         IN  IF colValue.k = "absent" THEN "drop"
             ELSE IF filter.condition \notin {"eq", "neq"} THEN "error"
             ELSE IF (filter.condition = "eq") = checkEquals(colValue, filter.value)
                  THEN ApplyFilters(event, Tail(filters))
             ELSE "drop"

\* json.Marshal of a group-by value, as bytes
MarshalBytes(v) ==
    IF v.k \in {"int", "int64", "float64"} THEN Itoa(v.n)
    ELSE <<34>> \o v.s \o <<34>>

RECURSIVE RowKey(_, _)
\* the row key of an event: [drop, key]; the parts are joined by 0x00
RowKey(event, groupBy) ==
    IF groupBy = <<>> THEN [drop |-> FALSE, key |-> <<>>]
    ELSE LET groupColVal == event[groupBy[1]]
             rest == RowKey(event, Tail(groupBy))
         IN  IF groupColVal.k = "absent" \/ rest.drop THEN [drop |-> TRUE, key |-> <<>>]
             ELSE [drop |-> FALSE,
                   key |-> MarshalBytes(groupColVal)
                           \o (IF Len(groupBy) > 1 THEN <<0>> \o rest.key ELSE <<>>)]

\* a float64 aggregate slot: NaN, or the number v
NaN == [nan |-> TRUE, v |-> 0]
Num(v) == [nan |-> FALSE, v |-> v]

\* one slot of updateRows
UpdateSlot(slot, aggregate, floatVal) ==
    CASE aggregate = "sum" -> Num((IF slot.nan THEN 0 ELSE slot.v) + floatVal)
      [] aggregate = "count" -> Num((IF slot.nan THEN 0 ELSE slot.v) + 1)
      [] aggregate = "min" -> IF slot.nan \/ slot.v > floatVal THEN Num(floatVal) ELSE slot
      [] aggregate = "max" -> IF slot.nan \/ slot.v < floatVal THEN Num(floatVal) ELSE slot
      [] OTHER -> slot

\* updateRows(rowKey, rows) for one event
updateRows(event, columns, rowKey, rows) ==
    LET old == IF rowKey \in DOMAIN rows THEN rows[rowKey]
               ELSE [i \in 1..Len(columns) |-> NaN]
        floatVal(i) == LET columnVal == event[columns[i].name]
                       IN  IF columnVal.k \in {"int", "float64"} THEN columnVal.n ELSE 0
        new == [i \in 1..Len(columns) |-> UpdateSlot(old[i], columns[i].aggregate, floatVal(i))]
    IN  [k \in DOMAIN rows \cup {rowKey} |-> IF k = rowKey THEN new ELSE rows[k]]

\* the rows of an empty Go map
NoRows == [k \in {} |-> <<>>]

\* the rows of a bucket made anew at every event
BucketRowsFresh(summaryRowsByTime, timeGroup) == NoRows

\* rows, ok = summaryRowsByTime[timeGroup]: the rows of the bucket, an
\* empty map when the bucket is new
BucketRows(summaryRowsByTime, timeGroup) ==
    IF timeGroup \in DOMAIN summaryRowsByTime THEN summaryRowsByTime[timeGroup] ELSE NoRows

RECURSIVE CursorLoop(_, _, _, _, _, _, _)
\* the cursor loop of Query from position i of the cursor's key order:
\* [err, events, summaryRows, summaryRowsByTime]
CursorLoop(st, keys, i, desc, startTs, endKey, acc) ==
    IF i > Len(keys) THEN acc
    ELSE IF StrLess(endKey, keys[i]) THEN acc
    ELSE IF keys[i][1] = ChUnderscore
         THEN CursorLoop(st, keys, i + 1, desc, startTs, endKey, acc)
    ELSE LET id == splitCollectionID(keys[i])
             next(a) == CHOOSE r \in { CursorLoop(st, keys, i + 1, desc, startTs, endKey, v) :
                                        v \in {a} } : TRUE
         IN  IF id.err # "nil" THEN [acc EXCEPT !.err = id.err]
             ELSE IF id.ts < startTs THEN next(acc)
             ELSE LET event == ReadEvent(id.ts, id.tag, id.hash, st[keys[i]])
                      filtered == ApplyFilters(event, desc.filters)
                      rk == RowKey(event, desc.groupBy)
                      timeGroup == GoDiv(id.ts, desc.pointSize)
                  IN  IF filtered = "error" THEN [acc EXCEPT !.err = "invalid filter condition"]
                      ELSE IF filtered = "drop" THEN next(acc)
                      ELSE IF Len(desc.groupBy) = 0 /\ Len(desc.columns) = 0 /\ desc.pointSize <= 0
                           THEN next([acc EXCEPT !.events = Append(@,
                                        [event EXCEPT !["_ts"] = GoTime(fromMicrosecondTime(id.ts))])])
                      ELSE IF rk.drop THEN next(acc)
                      ELSE LET s1 == IF Len(desc.columns) > 0
                                     THEN updateRows(event, desc.columns, rk.key, acc.summaryRows)
                                     ELSE acc.summaryRows
                               old == BucketRows(acc.summaryRowsByTime, timeGroup)
                               s2 == IF desc.pointSize > 0
                                     THEN [g \in DOMAIN acc.summaryRowsByTime \cup {timeGroup} |->
                                             IF g = timeGroup
                                             THEN updateRows(event, desc.columns, rk.key, old)
                                             ELSE acc.summaryRowsByTime[g]]
                                     ELSE acc.summaryRowsByTime
                           IN  next([acc EXCEPT !.summaryRows = s1, !.summaryRowsByTime = s2])

\* the end of the scanned range: both bounds at minTimestamp mean no upper
\* bound
QueryEnd(desc) ==
    IF desc.start = minTimestamp /\ desc.end = minTimestamp
    THEN fromMicrosecondTime(MaxInt64)
    ELSE desc.end

\* EventCollection.Query up to the end of the cursor loop; fault "cursor"
\* is NewCursor failing
QueryCall(st, mode, desc, fault) ==
    LET startTs == toMicrosecondTime(desc.start)
        startKey == <<ChE>> \o formatTs(startTs)
        endKey == <<ChE>> \o formatTs(toMicrosecondTime(QueryEnd(desc))) \o <<ChFF>>
        keys == SortKeys(DOMAIN st)
        empty == [err |-> "nil", events |-> <<>>, summaryRows |-> NoRows,
                  summaryRowsByTime |-> [g \in {} |-> NoRows]]
    IN  IF fault = "cursor" THEN [empty EXCEPT !.err = "cursor error"]
        ELSE CursorLoop(st, keys, SeekIndex(keys, startKey, mode), desc, startTs, endKey, empty)

---------------------------------------------------------------------------
(* Query: the result built from the rows of the cursor loop *)

\* the orders in which a range over a Go map with the keys S may visit them
Perms(S) ==
    { f \in [1..Cardinality(S) -> S] : \A i, j \in 1..Cardinality(S) : f[i] = f[j] => i = j }

\* the numbers of a finite set in ascending order
RECURSIVE SortedInts(_)
SortedInts(S) ==
    IF S = {} THEN <<>>
    ELSE LET m == CHOOSE k \in S : \A o \in S : k <= o
         IN  <<m>> \o SortedInts(S \ {m})

\* a float64 that is NaN; an aggregate slot as the value of an event field
GoNaN == GoVal("NaN", 0, <<>>, Time(0, 0, "UTC"))
SlotVal(slot) == IF slot.nan THEN GoNaN ELSE GoFloat(slot.v)

\* dec.UseNumber(); dec.Decode(&val) on one part of a row key
DecodePart(part) ==
    IF Len(part) >= 2 /\ part[1] = 34 THEN GoString(SubSeq(part, 2, Len(part) - 1))
    ELSE GoVal("json.Number", Atoi(part).n, <<>>, Time(0, 0, "UTC"))

\* event[col] on a result event: nil when the event has no such field
Field(event, col) == IF col \in DOMAIN event THEN event[col] ELSE GoAbsent

\* columnDesc.Aggregate + "(" + columnDesc.Name + ")"
FieldName(columnDesc) == columnDesc.aggregate \o "(" \o columnDesc.name \o ")"

\* the fields a summary or series event takes from its row: the decoded
\* parts of the row key under the group-by names (in a summary event _ts
\* as a time, in a series event no _ts), then the aggregates; a later
\* assignment to a name replaces an earlier one
RowFields(desc, rowKey, rowAggregates, series) ==
    LET parts == IF Len(desc.groupBy) > 0 THEN Split(rowKey, 0) ELSE <<>>
        gIdx == { i \in 1..Len(desc.groupBy) : ~(series /\ desc.groupBy[i] = "_ts") }
        cIdx == 1..Len(desc.columns)
        names == { desc.groupBy[i] : i \in gIdx } \cup { FieldName(desc.columns[i]) : i \in cIdx }
        gVal(i) == IF desc.groupBy[i] = "_ts"
                   THEN GoTime(fromMicrosecondTime(Atoi(parts[i]).n))
                   ELSE DecodePart(parts[i])
        lastOf(I) == CHOOSE i \in I : \A j \in I : j <= i
    IN  [f \in names |->
            LET cs == { i \in cIdx : FieldName(desc.columns[i]) = f }
                gs == { i \in gIdx : desc.groupBy[i] = f }
            IN  IF cs # {} THEN SlotVal(rowAggregates[lastOf(cs)]) ELSE gVal(lastOf(gs))]

\* OrderBy.Less on two events
OrderByLess(columns, ei, ej) ==
    \A k \in 1..Len(columns) :
        ~(compareInterfaces(Field(ei, columns[k]), Field(ej, columns[k])) >= 0)

\* Less of the ordering Query sorts by: OrderBy, or sort.Reverse of it
OrderingLess(desc, ei, ej) ==
    IF desc.descending THEN OrderByLess(desc.orderBy, ej, ei)
    ELSE OrderByLess(desc.orderBy, ei, ej)

RECURSIVE SiftDown(_, _, _)
\* the inner loop of insertionSort: for j > a && Less(j, j-1) { Swap(j, j-1) }
SiftDown(desc, events, j) ==
    IF j > 1 /\ OrderingLess(desc, events[j], events[j - 1])
    THEN SiftDown(desc, [events EXCEPT ![j] = events[j - 1], ![j - 1] = events[j]], j - 1)
    ELSE events

RECURSIVE InsertionSortFrom(_, _, _)
InsertionSortFrom(desc, events, i) ==
    IF i > Len(events) THEN events
    ELSE InsertionSortFrom(desc, SiftDown(desc, events, i), i + 1)

\* sort.Stable(ordering): on up to 20 events, which is one block of
\* sort.Stable, it is one insertionSort
SortStable(desc, events) == InsertionSortFrom(desc, events, 2)

\* the summary of a result from summaryRows, visited in the order keyOrder:
\* the events, ordered when order_by is set, cut to the limit
Summary(desc, summaryRows, keyOrder) ==
    LET summaryEvents == [i \in 1..Len(keyOrder) |->
                             RowFields(desc, keyOrder[i], summaryRows[keyOrder[i]], FALSE)]
        ordered == IF Len(desc.orderBy) # 0 THEN SortStable(desc, summaryEvents)
                   ELSE summaryEvents
    IN  IF desc.limit > 0 /\ Len(ordered) > desc.limit
        THEN SubSeq(ordered, 1, desc.limit)
        ELSE ordered

\* one event of the series: bucket ts, row key rowKey
SeriesEvent(desc, rows, ts, rowKey) ==
    LET fields == RowFields(desc, rowKey, rows[rowKey], TRUE)
    IN  [f \in DOMAIN fields \cup {"_ts"} |->
            IF f \in DOMAIN fields THEN fields[f]
            ELSE GoTime(fromMicrosecondTime(ts * desc.pointSize))]

RECURSIVE SeriesOrders(_, _, _)
\* the series a result can hold: the events of the buckets, sorted by
\* ByTimestamp, so ascending in the bucket's time; the events of one
\* bucket stand in the order the range over its rows met them
SeriesOrders(desc, summaryRowsByTime, buckets) ==
    IF buckets = <<>> THEN {<<>>}
    ELSE LET ts == buckets[1]
             rows == summaryRowsByTime[ts]
         IN  { [i \in 1..Len(p) |-> SeriesEvent(desc, rows, ts, p[i])] \o rest :
                 p \in Perms(DOMAIN rows),
                 rest \in SeriesOrders(desc, summaryRowsByTime, Tail(buckets)) }

\* the series of a result, when point_size > 0
Series(desc, summaryRowsByTime) ==
    IF desc.pointSize > 0
    THEN SeriesOrders(desc, summaryRowsByTime, SortedInts(DOMAIN summaryRowsByTime))
    ELSE {<<>>}

\* EventCollection.Query: the results it can return, one for each order in
\* which the ranges over the row maps may run:
\* [err, events, summary, series, summaryRows, summaryRowsByTime]
QueryResults(st, mode, desc, fault) ==
    UNION {
      IF r.err # "nil"
      THEN { [err |-> r.err, events |-> <<>>, summary |-> <<>>, series |-> <<>>,
              summaryRows |-> NoRows, summaryRowsByTime |-> [g \in {} |-> NoRows]] }
      ELSE { [err |-> "nil", events |-> r.events,
              summary |-> Summary(desc, r.summaryRows, keyOrder), series |-> series,
              summaryRows |-> r.summaryRows, summaryRowsByTime |-> r.summaryRowsByTime] :
               keyOrder \in Perms(DOMAIN r.summaryRows),
               series \in Series(desc, r.summaryRowsByTime) } :
      r \in {QueryCall(st, mode, desc, fault)} }

---------------------------------------------------------------------------
(* Inputs of the sequential specification *)

\* two tags the tag pattern admits, and one it rejects
ValidTags == {StrA, StrB}
Tags == ValidTags \cup {StrADashB}

\* events StoreEvents accepts: one at the epoch with _id and a hash of the
\* hash pattern; two at 1us that share the key with the empty hash (no
\* _hash, a _hash that is no string) and differ in x and below the
\* microsecond; one at 1us with a hash outside the hash pattern
GoodEvents ==
    { Event(TRUE, TsAt(0, 0), HashOf(StrH), GoFloat(1)),
      Event(FALSE, TsAt(0, 1000), HashMissing, GoFloat(1)),
      Event(FALSE, TsAt(0, 1500), HashNotString, GoFloat(2)),
      Event(FALSE, TsAt(0, 1000), HashOf(StrADashB), GoFloat(1)) }

\* events StoreEvents rejects, one for each check
BadEvents ==
    { Event(FALSE, TsMissing, HashMissing, GoFloat(1)),
      Event(FALSE, TsNotString, HashMissing, GoFloat(1)),
      Event(FALSE, TsMalformed, HashMissing, GoFloat(1)),
      Event(FALSE, TsAt(-1, 999999000), HashMissing, GoFloat(1)),
      Event(FALSE, TsAt(0, 1000), HashMissing, GoFunc) }

EventInputs == GoodEvents \cup BadEvents

\* the requests' event lists: up to MaxBatch events.  StoreEvents returns
\* at the first event it rejects and reads none after it, so a rejected
\* event stands last.
Batches ==
    { b \in UNION { [1..n -> EventInputs] : n \in 0..MaxBatch } :
        \A i \in 1..(Len(b) - 1) : b[i] \in GoodEvents }

\* what the collection does under a call: works, fails to open a cursor,
\* fails to commit
Faults == {"none", "cursor", "update"}

\* the StoreEvents calls <<tag, events, fault>>.  A call with a tag outside
\* the tag pattern returns before it reads an event, and a call that
\* rejects an event returns before it opens a cursor: the inputs such a
\* call does not reach are left at their zero values.
StoreInputs ==
    { in \in Tags \X Batches \X Faults :
        /\ ~TagMatch(in[1]) => (in[2] = <<>> /\ in[3] = "none")
        /\ (Len(in[2]) > 0 /\ in[2][Len(in[2])] \in BadEvents) => in[3] = "none" }

\* where lm2's Seek lands (see SeekIndex): every call may meet either
SeekModes == {"le", "ge"}

\* times a query's range is made of: 1us before the epoch, the epoch as a
\* UTC time, 1us and 2us (minTimestamp is the epoch as time.Unix(0, 0))
BeforeEpoch == Time(-1, 999999000, "UTC")
EpochUTC == Time(0, 0, "UTC")
At1us == Time(0, 1000, "UTC")
At2us == Time(0, 2000, "UTC")

\* the time ranges of the queries: <<start, end>>
QueryRanges ==
    { <<minTimestamp, minTimestamp>>, <<EpochUTC, EpochUTC>>, <<At1us, At1us>>,
      <<BeforeEpoch, BeforeEpoch>>, <<BeforeEpoch, At2us>>, <<EpochUTC, At1us>>,
      <<At2us, At1us>> }

\* a QueryDesc; order_by, descending and limit are zero values unless set
Desc(start, end, filters, groupBy, columns, pointSize) ==
    [start |-> start, end |-> end, filters |-> filters, groupBy |-> groupBy,
     columns |-> columns, pointSize |-> pointSize,
     orderBy |-> <<>>, descending |-> FALSE, limit |-> 0]

\* the shapes of the queries: no aggregation; a filter; grouped sums in
\* buckets
QueryShapes ==
    { Desc(minTimestamp, minTimestamp, <<>>, <<>>, <<>>, 0),
      Desc(minTimestamp, minTimestamp,
           <<[column |-> "x", condition |-> "eq", value |-> GoFloat(1)]>>, <<>>, <<>>, 0),
      Desc(minTimestamp, minTimestamp, <<>>, <<"_tag">>,
           <<[name |-> "x", aggregate |-> "sum"]>>, 1) }

QueryDescs == { [d EXCEPT !.start = r[1], !.end = r[2]] : d \in QueryShapes, r \in QueryRanges }

\* a row of the collection is an event row, a version row
IsEventKey(k) == Len(k) > 0 /\ k[1] = ChE
IsVersionKey(k) == Len(k) > 0 /\ k[1] = ChV

\* the timestamp in an event row's key: its bytes 2..9
RowTs(k) == parseTs(SubSeq(k, 2, 9))

\* the keys (ts, tag, hash) of the events of a request that carry a
\* timestamp StoreEvents accepts
RequestKeys(tag, events) ==
    { EventKey(EventTs(events[i]).ts, tag, EventHash(events[i])) :
        i \in { j \in 1..Len(events) : EventTs(events[j]).err = "nil" } }

\* no call has returned
NoCall ==
    [op |-> "none", tag |-> <<>>, err |-> "nil", ret |-> 0, keys |-> {}, built |-> 0,
     rewrote |-> 0,
     desc |-> Desc(minTimestamp, minTimestamp, <<>>, <<>>, <<>>, 0),
     events |-> <<>>, summary |-> <<>>, series |-> <<>>,
     summaryRows |-> NoRows, summaryRowsByTime |-> [g \in {} |-> NoRows]]

---------------------------------------------------------------------------
(* The sequential specification: calls on one handle, one after another *)

Procs == {1, 2}

NoLocal == [tag |-> <<>>, wb |-> <<>>, version |-> 0]
NoCodec == [phase |-> "off"]

InitCommon ==
    /\ store = [k \in {} |-> <<>>]
    /\ last = NoCall
    /\ accepted = {}
    /\ nSucc = [t \in ValidTags |-> 0]
    /\ nCalls = 0
    /\ pc = [p \in Procs |-> "idle"]
    /\ local = [p \in Procs |-> NoLocal]
    /\ committed = [t \in ValidTags |-> 0]

Init == InitCommon /\ codec = NoCodec

\* a caller runs StoreEvents(req) to its return; keys are the event keys
\* of the request's events, built is the number of rows the call put in
\* its batch, rewrote the number of event rows whose value it changed.
\* With log, the history of stored events is kept.
StoreEventsStep(tag, events, fault, log) ==
    /\ last.op = "none"
    /\ nCalls < MaxCalls
    /\ \E r \in { StoreEventsCall(store, mode, tag, events, fault) : mode \in SeekModes } :
           /\ store' = r.store
           /\ last' = [NoCall EXCEPT !.op = "StoreEvents", !.tag = tag,
                                     !.err = r.err, !.ret = r.ret,
                                     !.keys = RequestKeys(tag, events),
                                     !.built = Len(r.wb),
                                     !.rewrote = Cardinality(
                                         { k \in DOMAIN store :
                                             IsEventKey(k) /\ r.store[k] # store[k] })]
           /\ accepted' = IF log /\ r.err = "nil"
                          THEN accepted \cup { <<tag, events[i].ts, events[i].hash, events[i].x>> :
                                                 i \in 1..Len(events) }
                          ELSE accepted
           /\ nSucc' = IF r.err = "nil" THEN [nSucc EXCEPT ![tag] = @ + 1] ELSE nSucc
           /\ nCalls' = IF r.err = "nil" THEN nCalls + 1 ELSE nCalls
    /\ UNCHANGED <<pc, local, committed, codec>>

StoreEvents(tag, events, fault) == StoreEventsStep(tag, events, fault, FALSE)

\* a caller runs Version(tag) to its return
GetVersion(tag, fault) ==
    /\ last.op = "none"
    /\ \E r \in { Version(store, tag, mode, fault) : mode \in SeekModes } :
           last' = [NoCall EXCEPT !.op = "Version", !.tag = tag, !.err = r.err, !.ret = r.n]
    /\ UNCHANGED <<store, accepted, nSucc, nCalls, pc, local, committed, codec>>

\* a caller runs Query(desc) to its return
Query(desc, fault) ==
    /\ last.op = "none"
    /\ \E r \in UNION { QueryResults(store, mode, desc, fault) : mode \in SeekModes } :
           last' = [NoCall EXCEPT !.op = "Query", !.desc = desc,
                                  !.err = r.err, !.events = r.events,
                                  !.summary = r.summary, !.series = r.series,
                                  !.summaryRows = r.summaryRows,
                                  !.summaryRowsByTime = r.summaryRowsByTime]
    /\ UNCHANGED <<store, accepted, nSucc, nCalls, pc, local, committed, codec>>

\* the caller takes the result; the handle is free for the next call
Return ==
    /\ last.op # "none"
    /\ last' = NoCall
    /\ UNCHANGED <<store, accepted, nSucc, nCalls, pc, local, committed, codec>>

Next ==
    \/ \E in \in StoreInputs : StoreEvents(in[1], in[2], in[3])
    \/ \E tag \in Tags, fault \in {"none", "cursor"} : GetVersion(tag, fault)
    \/ \E desc \in QueryDescs, fault \in {"none", "cursor"} : Query(desc, fault)
    \/ Return

Spec == Init /\ [][Next]_vars

---------------------------------------------------------------------------
(* The same calls, with the history of the stored events kept *)

LoggedStoreEvents(tag, events, fault) == StoreEventsStep(tag, events, fault, TRUE)

HistoryNext ==
    \/ \E in \in StoreInputs : LoggedStoreEvents(in[1], in[2], in[3])
    \/ \E tag \in Tags, fault \in {"none", "cursor"} : GetVersion(tag, fault)
    \/ \E desc \in QueryDescs, fault \in {"none", "cursor"} : Query(desc, fault)
    \/ Return

HistorySpec == Init /\ [][HistoryNext]_vars

---------------------------------------------------------------------------
(* Claims on the sequential specification *)

\* the stored version of a tag as a number: 0 when it has no version row
VersionNumber(st, tag) ==
    IF VersionKey(tag) \in DOMAIN st THEN Atoi(st[VersionKey(tag)]).n ELSE 0

\* C1: after N successful StoreEvents calls on a tag, Version of the tag
\* returns N, and fails with "not found" when N = 0; a successful call
\* returns the number of successful calls on its tag up to and including
\* itself (the previous version plus one), an empty events list included.
C1_VersionCountsCalls ==
    /\ \A t \in ValidTags, mode \in SeekModes :
          LET v == Version(store, t, mode, "none")
          IN  IF nSucc[t] = 0 THEN v.err = "not found"
              ELSE v.err = "nil" /\ v.n = nSucc[t]
    /\ (last.op = "StoreEvents" /\ last.err = "nil") => last.ret = nSucc[last.tag]

\* a second successful call on a tag has returned, its events list empty
C1_Witness ==
    /\ last.op = "StoreEvents" /\ last.err = "nil"
    /\ last.built = 1
    /\ last.ret = 2

\* C2: a StoreEvents call that returns an error leaves every row of the
\* collection, and so every tag's version, as it was before the call.
C2_FailedCallChangesNothing ==
    [][ (last'.op = "StoreEvents" /\ last'.err # "nil")
        => /\ store' = store
           /\ \A t \in ValidTags, mode \in SeekModes :
                 Version(store', t, mode, "none") = Version(store, t, mode, "none") ]_vars

\* a call on a collection that holds rows has failed on an event that lies
\* before the epoch, after it had put an earlier event in its batch
C2_Witness ==
    /\ last.op = "StoreEvents" /\ last.err = "ts before Unix epoch"
    /\ last.built >= 1
    /\ DOMAIN store # {}

\* C8, as claimed: no step changes or removes an event row once written.
C8_RowsNeverChange ==
    [][ \A k \in DOMAIN store :
          IsEventKey(k) => k \in DOMAIN store' /\ store'[k] = store[k] ]_vars

\* C8, amended: no step removes an event row, and the only step that
\* changes the value of one is a successful StoreEvents whose request
\* carries an event with the row's (ts, tag, hash).
C8_RowsChangeOnlyByRewrite ==
    [][ \A k \in DOMAIN store :
          IsEventKey(k) =>
             /\ k \in DOMAIN store'
             /\ store'[k] # store[k] =>
                   /\ last'.op = "StoreEvents" /\ last'.err = "nil"
                   /\ k \in last'.keys ]_vars

\* a successful StoreEvents has replaced the value of a row
C8_Witness == last.op = "StoreEvents" /\ last.err = "nil" /\ last.rewrote > 0

---------------------------------------------------------------------------
(* Claims on the stored events and the events Query returns *)

\* a descriptor of the no-aggregation path
RawShape(desc) ==
    Len(desc.filters) = 0 /\ Len(desc.groupBy) = 0 /\ Len(desc.columns) = 0
    /\ desc.pointSize <= 0

\* the instant of a request event's _ts
TsTime(ts) == Time(ts.sec, ts.nsec, "UTC")

\* a stored event <<tag, _ts, _hash, x>> of the history whose _hash is
\* absent or of the hash pattern, whose _ts is a whole number of
\* microseconds, and whose key no other stored event shares
PlainStored(a) ==
    /\ a[3].kind = "missing" \/ (a[3].kind = "string" /\ HashMatch(a[3].s))
    /\ a[2].nsec % NanosPerMicro = 0
    /\ \A b \in accepted \ {a} :
          ~ /\ b[1] = a[1]
            /\ toMicrosecondTime(TsTime(b[2])) = toMicrosecondTime(TsTime(a[2]))
            /\ (IF b[3].kind = "string" THEN b[3].s ELSE <<>>)
                 = (IF a[3].kind = "string" THEN a[3].s ELSE <<>>)

\* the returned event e is the stored event a
Returns(e, a) ==
    /\ e["_ts"].k = "time" /\ SameInstant(e["_ts"].t, TsTime(a[2]))
    /\ e["_tag"] = GoString(a[1])
    /\ a[3].kind = "string" => e["_hash"] = GoString(a[3].s)
    /\ e["x"] = a[4]

\* C3: a query of the no-aggregation path that returns a result returns,
\* for every stored event whose _ts lies in its range [start, end], an
\* event with the _ts, _tag, _hash and non-reserved fields of the stored
\* one.  Stated for the events of PlainStored only: those the store keeps
\* to the microsecond and has not rewritten.
C3_RoundTrip ==
    (last.op = "Query" /\ last.err = "nil" /\ RawShape(last.desc)) =>
        \A a \in accepted :
            ( /\ PlainStored(a)
              /\ ~Before(TsTime(a[2]), last.desc.start)
              /\ ~Before(last.desc.end, TsTime(a[2])) )
            => \E i \in 1..Len(last.events) : Returns(last.events[i], a)

\* C6: a query of the no-aggregation path with start = end = t returns
\* exactly the stored events whose timestamp is t.  Stated for every t not
\* before the epoch other than the value time.Unix(0, 0), for which Query
\* drops the upper bound.
C6_PointRange ==
    ( /\ last.op = "Query" /\ last.err # "cursor error" /\ RawShape(last.desc)
      /\ SameInstant(last.desc.start, last.desc.end)
      /\ last.desc.start # minTimestamp
      /\ ~Before(last.desc.start, minTimestamp) )
    => /\ last.err = "nil"
       /\ Len(last.events)
            = Cardinality({ k \in DOMAIN store :
                              IsEventKey(k)
                              /\ RowTs(k) = toMicrosecondTime(last.desc.start) })
       /\ \A i \in 1..Len(last.events) :
             /\ last.events[i]["_ts"].k = "time"
             /\ SameInstant(last.events[i]["_ts"].t, last.desc.start)

---------------------------------------------------------------------------
(* Concurrent callers of StoreEvents on one handle.  EventCollection.lock
   is declared and no method acquires it, so between two collection
   operations of one call (the cursor read of Version, Update) the other
   callers run.  committed counts, for each tag, the batches Update has
   applied. *)

\* StoreEvents calls started in one behaviour
MaxConcCalls == 3

\* the event lists of the concurrent callers: none, or one event
ConcBatches == { b \in Batches : Len(b) <= 1 }

\* caller p enters StoreEvents(req) and runs it to the end of its loop,
\* which touches the request only; an error returns at once
ConcBegin(p, tag, events) ==
    /\ pc[p] = "idle"
    /\ nCalls < MaxConcCalls
    /\ nCalls' = nCalls + 1
    /\ \E b \in {StoreBegin(tag, events)} :
           IF b.err # "nil"
           THEN UNCHANGED <<pc, local>>
           ELSE /\ pc' = [pc EXCEPT ![p] = "read"]
                /\ local' = [local EXCEPT ![p] = [tag |-> tag, wb |-> b.wb, version |-> 0]]
    /\ UNCHANGED <<store, last, accepted, nSucc, committed, codec>>

\* caller p runs c.Version(req.Tag), bumps the version it read and puts
\* the version row in its batch
ConcReadVersion(p, fault) ==
    /\ pc[p] = "read"
    /\ \E r \in { StoreRead(store, mode, local[p].tag, local[p].wb, fault) :
                    mode \in SeekModes } :
           IF r.err # "nil"
           THEN /\ pc' = [pc EXCEPT ![p] = "idle"]
                /\ local' = [local EXCEPT ![p] = NoLocal]
           ELSE /\ pc' = [pc EXCEPT ![p] = "commit"]
                /\ local' = [local EXCEPT ![p].wb = r.wb, ![p].version = r.version]
    /\ UNCHANGED <<store, last, accepted, nSucc, nCalls, committed, codec>>

\* caller p runs c.lm2Col.Update(wb) and returns
ConcCommit(p, fault) ==
    /\ pc[p] = "commit"
    /\ \E c \in {StoreCommit(store, local[p].wb, local[p].version, fault)} :
           /\ store' = c.store
           /\ committed' = IF c.err = "nil"
                           THEN [committed EXCEPT ![local[p].tag] = @ + 1]
                           ELSE committed
    /\ pc' = [pc EXCEPT ![p] = "idle"]
    /\ local' = [local EXCEPT ![p] = NoLocal]
    /\ UNCHANGED <<last, accepted, nSucc, nCalls, codec>>

ConcNext ==
    \/ \E p \in Procs, tag \in Tags, events \in ConcBatches : ConcBegin(p, tag, events)
    \/ \E p \in Procs, fault \in {"none", "cursor"} : ConcReadVersion(p, fault)
    \/ \E p \in Procs, fault \in {"none", "update"} : ConcCommit(p, fault)

ConcSpec == Init /\ [][ConcNext]_vars

\* C4: no caller has read the version of a tag while another caller was
\* between its own read of that tag's version and its commit: no two
\* callers stand between version read and commit on one tag.
C4_VersionReadsSerialized ==
    \A p, q \in Procs :
        (p # q /\ pc[p] = "commit" /\ pc[q] = "commit") => local[p].tag # local[q].tag

\* C5: in every state the version row of a tag counts exactly the batches
\* of the tag whose event rows the collection holds: no state has the rows
\* of a committed batch without its increment of the version.
C5_VersionCountsVisibleBatches ==
    \A t \in ValidTags : VersionNumber(store, t) = committed[t]

\* C7: the stored version of a tag never decreases from one state of the
\* collection to the next.
C7_VersionNeverDecreases ==
    [][ \A t \in ValidTags : VersionNumber(store', t) >= VersionNumber(store, t) ]_vars

---------------------------------------------------------------------------
(* The key codec on its own: keys are built as StoreEvents builds them and
   decoded as Query decodes them *)

\* "a.b/_" and "h1" as byte strings
StrTagLong == <<97, 46, 98, 47, 95>>
StrH1 == <<104, 49>>

\* timestamps in microseconds: before the epoch, the epoch, values whose
\* bytes meet every byte position, the '-' byte and the greatest
CodecTs == {-256, -1, 0, 1, ChDash, ChFF, ChFF + 1, ChDash * (ChFF + 2), MaxInt64}

\* tags of the tag pattern, and one outside it
CodecTags == {StrA, StrTagLong, StrADashB}

\* hashes: none, two of the hash pattern, one outside it
CodecHashes == {<<>>, StrH, StrH1, StrADashB}

CodecInit ==
    /\ InitCommon
    /\ codec \in [phase : {"input"}, ts1 : CodecTs, ts2 : CodecTs, tag : CodecTags,
                  hash1 : CodecHashes, hash2 : CodecHashes,
                  key1 : {<<>>}, key2 : {<<>>},
                  id : {[err |-> "none", ts |-> 0, tag |-> <<>>, hash |-> <<>>]}]

\* the keys of two events of one tag, as the loop of StoreEvents builds them
Encode ==
    /\ codec.phase = "input"
    /\ codec' = [codec EXCEPT !.phase = "encoded",
                              !.key1 = EventKey(codec.ts1, codec.tag, codec.hash1),
                              !.key2 = EventKey(codec.ts2, codec.tag, codec.hash2)]
    /\ UNCHANGED <<store, last, accepted, nSucc, nCalls, pc, local, committed>>

\* the first key, as the cursor loop of Query decodes it
Decode ==
    /\ codec.phase = "encoded"
    /\ codec' = [codec EXCEPT !.phase = "decoded", !.id = splitCollectionID(codec.key1)]
    /\ UNCHANGED <<store, last, accepted, nSucc, nCalls, pc, local, committed>>

CodecNext == Encode \/ Decode

CodecSpec == CodecInit /\ [][CodecNext]_vars

\* C9: of two events of one tag with timestamps 0 <= ts1 < ts2 (StoreEvents
\* accepts no timestamp before the epoch), the key of the first is
\* bytewise smaller than the key of the second, whatever their hashes, and
\* a forward cursor visits the first before the second.
C9_KeyOrderIsTimeOrder ==
    (codec.phase \in {"encoded", "decoded"} /\ 0 <= codec.ts1 /\ codec.ts1 < codec.ts2)
    => /\ StrLess(codec.key1, codec.key2)
       /\ SortKeys({codec.key1, codec.key2}) = <<codec.key1, codec.key2>>

\* two keys are built whose timestamps differ in the two low bytes the
\* other way round, the earlier event carrying the greater hash
C9_Witness ==
    /\ codec.phase = "encoded"
    /\ codec.ts1 = ChFF /\ codec.ts2 = ChFF + 1
    /\ codec.hash1 = StrH1 /\ codec.hash2 = <<>>
    /\ StrLess(codec.key1, codec.key2)

\* C10: for every timestamp, every tag of the tag pattern and every hash
\* that is empty or of the hash pattern, splitCollectionID of the key
\* StoreEvents builds succeeds and returns the timestamp, tag and hash.
C10_KeyRoundTrip ==
    ( /\ codec.phase = "decoded"
      /\ TagMatch(codec.tag)
      /\ codec.hash1 = <<>> \/ HashMatch(codec.hash1) )
    => codec.id = [err |-> "nil", ts |-> codec.ts1, tag |-> codec.tag, hash |-> codec.hash1]

\* a key whose timestamp bytes hold the '-' byte, with a tag of several
\* bytes and the empty hash, is decoded to its parts
C10_Witness ==
    /\ codec.phase = "decoded"
    /\ codec.ts1 = ChDash * (ChFF + 2) /\ codec.tag = StrTagLong /\ codec.hash1 = <<>>
    /\ codec.id.err = "nil" /\ codec.id.ts = codec.ts1

---------------------------------------------------------------------------
(* Queries on stored collections: the collection is what two successful
   StoreEvents calls, one on each tag, leave; the calls are Query calls *)

\* events per StoreEvents request that builds the queried collection
MaxQBatch == 2

\* events of the queried collections: at 0, 1us and 2us, with and without
\* a hash, with x = 1, x = 2 and without x
QEvents ==
    { Event(FALSE, TsAt(0, 0), HashMissing, GoFloat(1)),
      Event(FALSE, TsAt(0, 1000), HashMissing, GoFloat(2)),
      Event(FALSE, TsAt(0, 2000), HashOf(StrH), GoInt(1)),
      Event(FALSE, TsAt(0, 1000), HashOf(StrH), GoAbsent) }

QBatches == UNION { [1..n -> QEvents] : n \in 0..MaxQBatch }

\* the collection after StoreEvents of eventsA on tag "a", then of eventsB
\* on tag "b"
Stored(eventsA, eventsB) ==
    StoreEventsCall(StoreEventsCall([k \in {} |-> <<>>], "le", StrA, eventsA, "none").store,
                    "le", StrB, eventsB, "none").store

\* a filter, a column with its aggregate
Filter(column, condition, value) == [column |-> column, condition |-> condition, value |-> value]
Column(name, aggregate) == [name |-> name, aggregate |-> aggregate]

\* the time ranges of the queries on stored collections
QRanges ==
    { <<minTimestamp, minTimestamp>>, <<EpochUTC, At2us>>, <<At1us, At2us>>,
      <<BeforeEpoch, At2us>> }

\* sums and counts of x for each tag, in buckets of 2us
TagSums == Desc(minTimestamp, minTimestamp, <<>>, <<"_tag">>,
                <<Column("x", "sum"), Column("x", "count")>>, 2)

\* the shapes of the queries on stored collections
QShapes ==
    { Desc(minTimestamp, minTimestamp, <<>>, <<>>, <<>>, 0),
      Desc(minTimestamp, minTimestamp, <<Filter("x", "eq", GoFloat(1))>>, <<>>, <<>>, 0),
      Desc(minTimestamp, minTimestamp, <<Filter("x", "neq", GoInt(1))>>, <<>>, <<>>, 0),
      Desc(minTimestamp, minTimestamp, <<Filter("x", "gt", GoFloat(1))>>, <<>>, <<>>, 0),
      Desc(minTimestamp, minTimestamp,
           <<Filter("x", "eq", GoFloat(1)), Filter("_hash", "lt", GoString(StrH))>>,
           <<>>, <<>>, 0),
      Desc(minTimestamp, minTimestamp, <<>>, <<"_tag">>, <<>>, 0),
      Desc(minTimestamp, minTimestamp, <<>>, <<"_hash">>, <<Column("x", "max")>>, 1),
      TagSums,
      [TagSums EXCEPT !.orderBy = <<"sum(x)", "count(x)">>],
      [TagSums EXCEPT !.orderBy = <<"count(x)">>, !.descending = TRUE, !.limit = 1,
                      !.groupBy = <<"_tag", "_hash">>] }

QDescs == { [d EXCEPT !.start = r[1], !.end = r[2]] : d \in QShapes, r \in QRanges }

QueryInit ==
    /\ store \in { Stored(eventsA, eventsB) : eventsA \in QBatches, eventsB \in QBatches }
    /\ last = NoCall
    /\ accepted = {}
    /\ nSucc = [t \in ValidTags |-> 1]
    /\ nCalls = 2
    /\ pc = [p \in Procs |-> "idle"]
    /\ local = [p \in Procs |-> NoLocal]
    /\ committed = [t \in ValidTags |-> 1]
    /\ codec = NoCodec

QueryNext ==
    \/ \E desc \in QDescs, fault \in {"none", "cursor"} : Query(desc, fault)
    \/ Return

QuerySpec == QueryInit /\ [][QueryNext]_vars

---------------------------------------------------------------------------
(* Claims on the results of Query *)

\* the microseconds Query scans: from start to the end it settled on
StartUs(desc) == toMicrosecondTime(desc.start)
EndUs(desc) == toMicrosecondTime(QueryEnd(desc))

\* the event rows of the collection with start_us <= ts <= end_us
RowsInRange(st, desc) ==
    { k \in DOMAIN st : IsEventKey(k) /\ StartUs(desc) <= RowTs(k) /\ RowTs(k) <= EndUs(desc) }

RECURSIVE SumOverBuckets(_, _, _, _)
\* the sum of slot i of row rowKey over the buckets B that hold the row
SumOverBuckets(summaryRowsByTime, B, rowKey, i) ==
    IF B = {} THEN 0
    ELSE LET b == CHOOSE g \in B : TRUE
             here == IF rowKey \in DOMAIN summaryRowsByTime[b]
                        /\ ~summaryRowsByTime[b][rowKey][i].nan
                     THEN summaryRowsByTime[b][rowKey][i].v ELSE 0
         IN  here + SumOverBuckets(summaryRowsByTime, B \ {b}, rowKey, i)

RowID(k) ==
    LET id == splitCollectionID(k)
    IN  Itoa(id.ts) \o <<ChDash>> \o id.tag
        \o (IF Len(id.hash) > 0 THEN <<ChDash>> \o id.hash ELSE <<>>)

\* C12: a query without filters or aggregation over a range start <= end
\* (other than start = end = minTimestamp) that returns a result has
\* processed exactly the event rows with start_us <= ts <= end_us: its
\* events are those rows, each once, also when start lies before the epoch.
C12_RangeScan ==
    ( /\ last.op = "Query" /\ last.err = "nil" /\ RawShape(last.desc)
      /\ ~Before(last.desc.end, last.desc.start)
      /\ ~(last.desc.start = minTimestamp /\ last.desc.end = minTimestamp) )
    => /\ { last.events[i]["_id"].s : i \in 1..Len(last.events) }
            = { RowID(k) : k \in RowsInRange(store, last.desc) }
       /\ Len(last.events) = Cardinality(RowsInRange(store, last.desc))

RECURSIVE LexBefore(_, _, _)
\* event ei stands before ej in the lexicographic order of the columns:
\* smaller in the first column in which the two differ
LexBefore(columns, ei, ej) ==
    IF columns = <<>> THEN FALSE
    ELSE LET c == compareInterfaces(Field(ei, columns[1]), Field(ej, columns[1]))
         IN  IF c < 0 THEN TRUE
             ELSE IF c > 0 THEN FALSE
             ELSE LexBefore(Tail(columns), ei, ej)

\* C13: the summary of a query with order_by is sorted by the order_by
\* columns lexicographically (the first column decides, ties go to the
\* next), ascending, or descending when descending is set, and with
\* limit L > 0 it holds min(L, number of rows) events.
C13_SummaryIsOrdered ==
    (last.op = "Query" /\ last.err = "nil" /\ Len(last.desc.orderBy) # 0)
    => /\ \A i \in 1..(Len(last.summary) - 1) :
             IF last.desc.descending
             THEN ~LexBefore(last.desc.orderBy, last.summary[i], last.summary[i + 1])
             ELSE ~LexBefore(last.desc.orderBy, last.summary[i + 1], last.summary[i])
       /\ Len(last.summary)
            = IF last.desc.limit > 0 /\ Cardinality(DOMAIN last.summaryRows) > last.desc.limit
              THEN last.desc.limit
              ELSE Cardinality(DOMAIN last.summaryRows)

\* the filters of the descriptor with a condition other than eq and neq
BadFilters(desc) ==
    { p \in 1..Len(desc.filters) : desc.filters[p].condition \notin {"eq", "neq"} }

\* the event of row k of the collection, as the cursor loop builds it
RowEvent(st, k) ==
    LET id == splitCollectionID(k) IN ReadEvent(id.ts, id.tag, id.hash, st[k])

\* C14: a query with a filter whose condition is neither eq nor neq fails
\* with the invalid-condition error, whatever is stored: also when no
\* stored event is in the range, none carries the filter's column, or an
\* earlier filter drops every event.
C14_BadConditionAlwaysFails ==
    (last.op = "Query" /\ last.err # "cursor error" /\ BadFilters(last.desc) # {})
    => last.err = "invalid filter condition"

\* the descriptor takes the no-aggregation path
NoAggregation(desc) ==
    Len(desc.groupBy) = 0 /\ Len(desc.columns) = 0 /\ desc.pointSize <= 0

\* the event carries every filter column and satisfies every filter
SatisfiesFilters(event, filters) ==
    \A q \in 1..Len(filters) :
        /\ event[filters[q].column].k # "absent"
        /\ filters[q].condition = "eq" => checkEquals(event[filters[q].column], filters[q].value)
        /\ filters[q].condition = "neq" => ~checkEquals(event[filters[q].column], filters[q].value)

\* the in-range rows whose events satisfy the filters, in key order
MatchingRows(st, desc) ==
    SortKeys({ k \in RowsInRange(st, desc) : SatisfiesFilters(RowEvent(st, k), desc.filters) })

TagOfRow(k) == Split(SubSeq(k, 11, Len(k)), ChDash)[1]

\* the event rows of a tag, keys and values
RowsOfTag(st, tag) ==
    [ k \in { k2 \in DOMAIN st : IsEventKey(k2) /\ TagOfRow(k2) = tag } |-> st[k] ]

\* C16: a StoreEvents call on tag T, whether it succeeds or fails, leaves
\* the version and every event row of every other tag as they were, and
\* every row it writes or changes is the version row of T or an event row
\* of T; the event keys it builds for a valid T are no event key and no
\* version key of another tag.
C16_OtherTagsUntouched ==
    [][ last'.op = "StoreEvents" =>
          /\ \A other \in ValidTags \ {last'.tag} :
                /\ \A mode \in SeekModes :
                      Version(store', other, mode, "none") = Version(store, other, mode, "none")
                /\ RowsOfTag(store', other) = RowsOfTag(store, other)
                /\ last'.tag \in ValidTags =>
                      \A k \in last'.keys : k # VersionKey(other) /\ TagOfRow(k) # other
          /\ \A k \in DOMAIN store' :
                (k \notin DOMAIN store \/ store'[k] # store[k])
                => \/ k = VersionKey(last'.tag)
                   \/ IsEventKey(k) /\ TagOfRow(k) = last'.tag ]_vars

\* a StoreEvents call on one tag has succeeded and written event rows,
\* while another tag has a version and an event row at the timestamp of
\* one of the rows written
C16_Witness ==
    /\ last.op = "StoreEvents" /\ last.err = "nil" /\ last.keys # {}
    /\ \E other \in ValidTags \ {last.tag} :
          /\ Version(store, other, "le", "none").n = 1
          /\ \E k \in last.keys, k2 \in DOMAIN RowsOfTag(store, other) :
                RowTs(k) = RowTs(k2)

---------------------------------------------------------------------------
(* compareInterfaces on pairs of values *)

\* values of every type the switch tells apart, the ints with both ends
\* of the range
CompareVals ==
    { GoInt(n) : n \in {MinInt, -2, -1, 0, 1, 3, MaxInt} }
    \cup { GoFloat(n) : n \in {-1, 0, 2} }
    \cup { GoNaN, GoInt64(1), GoFunc, GoString(<<>>), GoString(StrA), GoString(StrB) }
    \cup { GoVal("json.Number", n, <<>>, Time(0, 0, "UTC")) : n \in {0, 1} }

CompareInit ==
    /\ InitCommon
    /\ codec \in [phase : {"input"}, a : CompareVals, b : CompareVals, ret : {0}, eq : {FALSE}]

\* compareInterfaces(a, b) and checkEquals(a, b) are called
Compare ==
    /\ codec.phase = "input"
    /\ codec' = [codec EXCEPT !.phase = "compared",
                              !.ret = compareInterfaces(codec.a, codec.b),
                              !.eq = checkEquals(codec.a, codec.b)]
    /\ UNCHANGED <<store, last, accepted, nSucc, nCalls, pc, local, committed>>

CompareNext == Compare

CompareSpec == CompareInit /\ [][CompareNext]_vars

\* C17: compareInterfaces(a, b) returns -1, 0 or +1, and for two ints the
\* sign of a - b: -1 when a < b, 0 when a = b, +1 when a > b, also when
\* the difference overflows.
C17_CompareIsSign ==
    codec.phase = "compared" =>
        /\ codec.ret \in {-1, 0, 1}
        /\ (codec.a.k = "int" /\ codec.b.k = "int") =>
              codec.ret = (IF codec.a.n < codec.b.n THEN -1
                           ELSE IF codec.a.n = codec.b.n THEN 0 ELSE 1)

\* C18: every event row StoreEvents has written decodes with
\* splitCollectionID, and no query fails with the invalid-ID error.
C18_StoredRowsReadable ==
    /\ \A k \in DOMAIN store : IsEventKey(k) => splitCollectionID(k).err = "nil"
    /\ last.op = "Query" => last.err \notin {"invalid ID", "invalid ID prefix"}

\* the event of row k is in one of the outputs of the query: appended to
\* events, or aggregated into its summary row, or into its row of the
\* bucket of its timestamp
Contributes(st, k, res) ==
    LET desc == res.desc
        row == RowKey(RowEvent(st, k), desc.groupBy)
    IN  \/ \E i \in 1..Len(res.events) : res.events[i]["_id"].s = RowID(k)
        \/ row.key \in DOMAIN res.summaryRows
        \/ /\ desc.pointSize > 0
           /\ GoDiv(RowTs(k), desc.pointSize) \in DOMAIN res.summaryRowsByTime
           /\ row.key \in DOMAIN res.summaryRowsByTime[GoDiv(RowTs(k), desc.pointSize)]

\* C19: in a query that returns a result, every in-range event that
\* passes all filters and carries every group_by column is appended to
\* events or updates a summary row or a series row, whatever the shape of
\* the descriptor.  Stated for ranges that start at or after the epoch.
C19_NoEventLostByRouting ==
    (last.op = "Query" /\ last.err = "nil" /\ ~Before(last.desc.start, minTimestamp)) =>
        \A k \in RowsInRange(store, last.desc) :
            ( /\ SatisfiesFilters(RowEvent(store, k), last.desc.filters)
              /\ ~RowKey(RowEvent(store, k), last.desc.groupBy).drop )
            => Contributes(store, k, last)

====
